---- MODULE Spec2Model ----
(***************************************************************************)
(* A/B test evaluation (two-proportion z-test on simulated outcomes).      *)
(*                                                                         *)
(* Three source variants are modelled: the script src/abtest.py, the       *)
(* function run_ab_test of src/abtest-analysis.py and its commented twin   *)
(* in src/data_analytics_examples/abtest-analysis.py.                      *)
(*                                                                         *)
(* Number representation.  TLA+ has no reals, so every float of the code   *)
(* is a record [k, v]: k is "fin", "pinf", "ninf" or "nan" (the IEEE       *)
(* specials numpy produces instead of raising), v an integer in a fixed    *)
(* scale:                                                                  *)
(*   - the four parameters are integers in percent (6 is 0.06);            *)
(*   - z-values, rates, uplift, SE, z-score, p-value and the interval      *)
(*     bounds are in units of 10^-6; the two variance terms in units of    *)
(*     10^-9;                                                              *)
(*   - rounded outputs are in units of 10^-4 (10^-3 for the z-score).      *)
(* Divisions round toward zero.  sample_size and the conversion counts     *)
(* are computed from the percent parameters and the tabulated z-values     *)
(* without intermediate rounding of the variance or the quotient.          *)
(***************************************************************************)
EXTENDS Integers, Sequences, FiniteSets, TLC

\* ------------------------------------------------------------ float values

Fin(x) == [k |-> "fin", v |-> x]
NaN == [k |-> "nan", v |-> 0]
PInf == [k |-> "pinf", v |-> 0]
NInf == [k |-> "ninf", v |-> 0]
\* a name that is not bound yet
Unset == [k |-> "unset", v |-> 0]

Abs(x) == IF x < 0 THEN -x ELSE x
Sgn(x) == IF x < 0 THEN -1 ELSE IF x > 0 THEN 1 ELSE 0

\* units per 1.0 of the 10^-6 scale and of the percent scale
One == 10^6
Pct == 10^2

\* a + b of two floats: inf + (-inf) is nan
FAdd(a, b) ==
    IF a.k = "nan" \/ b.k = "nan" THEN NaN
    ELSE IF a.k = "fin" /\ b.k = "fin" THEN Fin(a.v + b.v)
    ELSE IF a.k = "fin" THEN b
    ELSE IF b.k = "fin" THEN a
    ELSE IF a.k = b.k THEN a
    ELSE NaN

\* a < b of two finite-or-nan floats in the same scale: any comparison with
\* nan is False
FLt(a, b) == a.k = "fin" /\ b.k = "fin" /\ a.v < b.v

\* <<q, r>> with a * b = q * c + r and 0 <= r < c, for 0 <= a < c, b >= 0,
\* by doubling, so that no intermediate product leaves 32 bits
RECURSIVE MulRem(_, _, _)
MulRem(a, b, c) ==
    IF b = 0 THEN <<0, 0>>
    ELSE LET h == MulRem(a, b \div 2, c)
             t == 2 * h[2] + (IF b % 2 = 1 THEN a ELSE 0)
         IN  <<2 * h[1] + (t \div c), t % c>>

\* <<floor(a * b / c), (a * b) mod c>> for a, b >= 0 and c > 0
MulDivRem(a, b, c) ==
    LET h == MulRem(a % c, b, c)
    IN  <<(a \div c) * b + h[1], h[2]>>

\* a * b / c of floats held as integers, rounded toward zero
MulDiv(a, b, c) == Sgn(a) * Sgn(b) * MulDivRem(Abs(a), Abs(b), c)[1]

\* floor of the square root of n >= 0, by bisection on lo..hi
RECURSIVE IsqrtIn(_, _, _)
IsqrtIn(n, lo, hi) ==
    IF lo >= hi THEN lo
    ELSE LET mid == (lo + hi + 1) \div 2
         IN  IF mid * mid <= n THEN IsqrtIn(n, mid, hi)
             ELSE IsqrtIn(n, lo, mid - 1)

Isqrt(n) == IsqrtIn(n, 0, 46340)

\* round(x, d): x is an integer in a scale `unit` times finer than the result;
\* ties go to the even neighbour
RoundHalfEven(x, unit) ==
    LET a == Abs(x)
        q == a \div unit
        r == a % unit
        up == 2 * r > unit \/ (2 * r = unit /\ q % 2 = 1)
    IN  Sgn(x) * (IF up THEN q + 1 ELSE q)

Round(x, unit) == IF x.k = "fin" THEN Fin(RoundHalfEven(x.v, unit)) ELSE x

\* ------------------------------------------------------ scipy.stats.norm

\* norm.ppf at 0.500, 0.505, ..., 0.995, in units of 10^-6
PpfTable ==
  <<
     0, 12533, 25069, 37608, 50154, 62707, 75270, 87845,
     100434, 113039, 125661, 138304, 150969, 163658, 176374, 189118,
     201893, 214702, 227545, 240426, 253347, 266311, 279319, 292375,
     305481, 318639, 331853, 345126, 358459, 371856, 385320, 398855,
     412463, 426148, 439913, 453762, 467699, 481727, 495850, 510073,
     524401, 538836, 553385, 568051, 582842, 597760, 612813, 628006,
     643345, 658838, 674490, 690309, 706303, 722479, 738847, 755415,
     772193, 789192, 806421, 823894, 841621, 859617, 877896, 896473,
     915365, 934589, 954165, 974114, 994458, 1015222, 1036433, 1058122,
     1080319, 1103063, 1126391, 1150349, 1174987, 1200359, 1226528, 1253565,
     1281552, 1310579, 1340755, 1372204, 1405072, 1439531, 1475791, 1514102,
     1554774, 1598193, 1644854, 1695398, 1750686, 1811911, 1880794, 1959964,
     2053749, 2170090, 2326348, 2575829
  >>

\* norm.ppf(p), p in units of 10^-3 (a multiple of 5): -inf at 0, +inf at 1,
\* nan outside [0, 1]
NormPpf(pm) ==
    IF pm < 0 \/ pm > 1000 THEN NaN
    ELSE IF pm = 0 THEN NInf
    ELSE IF pm = 1000 THEN PInf
    ELSE IF pm >= 500 THEN Fin(PpfTable[(pm - 500) \div 5 + 1])
    ELSE Fin(-PpfTable[(500 - pm) \div 5 + 1])

\* norm.cdf at 0.00, 0.05, ..., 5.00, in units of 10^-6
CdfTable ==
  <<
     500000, 519939, 539828, 559618, 579260, 598706, 617911, 636831, 655422, 673645,
     691462, 708840, 725747, 742154, 758036, 773373, 788145, 802337, 815940, 828944,
     841345, 853141, 864334, 874928, 884930, 894350, 903200, 911492, 919243, 926471,
     933193, 939429, 945201, 950529, 955435, 959941, 964070, 967843, 971283, 974412,
     977250, 979818, 982136, 984222, 986097, 987776, 989276, 990613, 991802, 992857,
     993790, 994614, 995339, 995975, 996533, 997020, 997445, 997814, 998134, 998411,
     998650, 998856, 999032, 999184, 999313, 999423, 999517, 999596, 999663, 999720,
     999767, 999807, 999841, 999869, 999892, 999912, 999928, 999941, 999952, 999961,
     999968, 999974, 999979, 999983, 999987, 999989, 999991, 999993, 999995, 999996,
     999997, 999997, 999998, 999998, 999999, 999999, 999999, 999999, 1000000, 1000000,
     1000000
  >>

\* norm.cdf(x) for x >= 0 in units of 10^-6: linear between the table's points
CdfPos(x) ==
    LET step == One \div 20
        i == x \div step
    IN  IF i >= Len(CdfTable) - 1 THEN One
        ELSE CdfTable[i + 1]
             + MulDiv(CdfTable[i + 2] - CdfTable[i + 1], x % step, step)

\* norm.cdf(z) of a float z
NormCdf(z) ==
    IF z.k = "nan" THEN NaN
    ELSE IF z.k = "pinf" THEN Fin(One)
    ELSE IF z.k = "ninf" THEN Fin(0)
    ELSE IF z.v >= 0 THEN Fin(CdfPos(z.v))
    ELSE Fin(One - CdfPos(-z.v))

\* ------------------------------------------------- 1. required sample size

\* -x of a float
FNeg(x) ==
    IF x.k = "fin" THEN Fin(-x.v)
    ELSE IF x.k = "pinf" THEN NInf
    ELSE IF x.k = "ninf" THEN PInf
    ELSE x

\* ZSum with the two-tailed critical value norm.ppf(1 - alpha/2) as z_alpha
ZSumTwoTailed(alpha, power) ==
    FAdd(NormPpf(10 * Pct - alpha * 5), NormPpf(power * 10))

\* ZSum with z_beta subtracted
ZSumMinus(alpha, power) ==
    FAdd(NormPpf((Pct - alpha) * 10), FNeg(NormPpf(power * 10)))

\* z_alpha + z_beta: norm.ppf(1 - alpha) + norm.ppf(power), in units of 10^-6
ZSum(alpha, power) ==
    LET z_alpha == NormPpf((Pct - alpha) * 10)
        z_beta == NormPpf(power * 10)
    IN  FAdd(z_alpha, z_beta)

\* std_dev ** 2 = 2 * pooled_prob * (1 - pooled_prob), in units of 10^-4
Variance(baseline_rate) ==
    LET pooled_prob == baseline_rate
    IN  2 * pooled_prob * (Pct - pooled_prob)

\* CeilSquare with the quotient inverted: ceil(effect_size^2 / (zs^2 * var))
CeilSquareInverted(zs, var, effect_size) ==
    LET sq == MulDivRem(Abs(zs), Abs(zs), One)[1]
        h == MulDivRem(effect_size * effect_size, One, sq)
    IN  (h[1] \div var)
        + (IF h[1] % var # 0 \/ h[2] # 0 THEN 1 ELSE 0)

\* ceil(zs^2 * var / effect_size^2) for a finite zs (units of 10^-6), var
\* (units of 10^-4) and effect_size # 0 (percent), the percent scales
\* cancelling: sqrt(var)^2 is var, so no root is taken
CeilSquare(zs, var, effect_size) ==
    LET sq == MulDivRem(Abs(zs), Abs(zs), One)[1]      \* zs^2, units of 10^-6
        h == MulDivRem(sq, var, effect_size * effect_size * 10^3)
    IN  (h[1] \div 10^3)
        + (IF h[1] % 10^3 # 0 \/ h[2] # 0 THEN 1 ELSE 0)

\* np.ceil(((z_alpha + z_beta) * std_dev / effect_size) ** 2) as a float:
\* numpy carries nan and inf through the sqrt, the product, the division by
\* zero and the square without raising
SampleSizeFloat(baseline_rate, effect_size, alpha, power) ==
    LET zs == ZSum(alpha, power)
        var == Variance(baseline_rate)
        \* (z_alpha + z_beta) * std_dev is one of "nan", "inf", "zero", "fin"
        prod == IF zs.k = "nan" \/ var < 0 THEN "nan"
                ELSE IF zs.k # "fin" THEN (IF var = 0 THEN "nan" ELSE "inf")
                ELSE IF zs.v = 0 \/ var = 0 THEN "zero"
                ELSE "fin"
    IN  IF prod = "nan" THEN NaN
        ELSE IF effect_size = 0
             THEN (IF prod = "zero" THEN NaN ELSE PInf)
        ELSE IF prod = "inf" THEN PInf
        ELSE IF prod = "zero" THEN Fin(0)
        ELSE Fin(CeilSquare(zs.v, var, effect_size))

\* ------------------------------------------------------ 2. simulated outcome

\* Conversions with the product rounded to the nearest integer
ConversionsRounded(n, rate) == (n * rate + Pct \div 2) \div Pct

\* int(n * rate): the product truncated toward zero; rate in percent
Conversions(n, rate) == Sgn(n * rate) * (Abs(n * rate) \div Pct)

\* conversions / n, in units of 10^-6
Rate(conversions, n) == Fin(MulDiv(conversions, One, n))

\* uplift = p_B - p_A
Uplift(pA, pB) == Fin(pB.v - pA.v)

\* ---------------------------------------------------------------- 3. analysis

\* p * (1 - p) / n, in units of 10^-9 (p in units of 10^-6)
VarTerm(p, n) == MulDiv(p.v, One - p.v, 10^3 * n)

\* sqrt of a value >= 0 given in units of 10^-9, in units of 10^-6; the
\* radicand is scaled as far as 32 bits allow
SqrtNano(x) ==
    IF x <= 2 * 10^6 THEN Isqrt(10^3 * x)
    ELSE IF x <= 2 * 10^8 THEN 10 * Isqrt(10 * x)
    ELSE 100 * Isqrt(x \div 10)

\* SE = np.sqrt(p_A*(1-p_A)/n_A + p_B*(1-p_B)/n_B); np.sqrt of a negative
\* number is nan
StdErr(pA, nA, pB, nB) ==
    LET rad == VarTerm(pA, nA) + VarTerm(pB, nB)
    IN  IF rad < 0 THEN NaN ELSE Fin(SqrtNano(rad))

\* z = uplift / SE, SE a numpy float: x/0 is inf or nan, never an exception
ZScore(up, se) ==
    IF se.k = "nan" THEN NaN
    ELSE IF se.v = 0
         THEN (IF up.v = 0 THEN NaN ELSE IF up.v > 0 THEN PInf ELSE NInf)
    ELSE Fin(MulDiv(up.v, One, se.v))

\* p_value = 1 - norm.cdf(z)
PValue(zscore) ==
    LET c == NormCdf(zscore)
    IN  IF c.k = "fin" THEN Fin(One - c.v) ELSE c

\* z_crit = norm.ppf(0.975)
ZCrit == NormPpf(975)

\* z_crit * SE, in units of 10^-6
Margin(se) == IF se.k = "fin" THEN Fin(MulDiv(ZCrit.v, se.v, One)) ELSE NaN

CiLower(up, se) ==
    LET m == Margin(se) IN IF m.k = "fin" THEN Fin(up.v - m.v) ELSE NaN

CiUpper(up, se) ==
    LET m == Margin(se) IN IF m.k = "fin" THEN Fin(up.v + m.v) ELSE NaN

\* the literal significance level of the script's verdict, in percent
LiteralAlpha == 5

\* Significant with the literal 0.05 in place of alpha
SignificantLiteral(pv, alpha) == FLt(pv, Fin(LiteralAlpha * (One \div Pct)))

\* significant = p_value < alpha (run_ab_test), alpha in percent
Significant(pv, alpha) == FLt(pv, Fin(alpha * (One \div Pct)))

\* the script's verdict: p_value < 0.05
SignificantScript(pv) == FLt(pv, Fin(LiteralAlpha * (One \div Pct)))

\* ------------------------------------------------------------------ output

\* the results record: its eight values in insertion order, rounded as printed
Results(ss, pA, pB, up, zscore, pv, lo, hi, verdict) ==
    << ss,
       Round(pA, 100),
       Round(pB, 100),
       Round(up, 100),
       Round(zscore, 1000),
       Round(pv, 100),
       <<Round(lo, 100), Round(hi, 100)>>,
       verdict >>

\* ------------------------------------------------------------ configurations

\* how many values of each parameter the model draws
GridLen == 6

\* the default arguments, in percent
DefaultBaselineRate == 6
DefaultEffectSize == 2
DefaultAlpha == 5
DefaultPower == 80

\* parameter values in percent, the defaults first; 0 and 100 are the ends of
\* the open interval (0,1)
BaselineRates == <<DefaultBaselineRate, 1, 50, 0, 100, 60, 30>>
EffectSizes == <<DefaultEffectSize, 50, 10, 0, 99, 100, 5>>
Alphas == <<DefaultAlpha, 50, 95, 0, 100, 10, 1>>
Powers == <<DefaultPower, 50, 20, 0, 100, 90, 99>>

Grid(values) ==
    {values[i] : i \in 1..(IF GridLen < Len(values) THEN GridLen ELSE Len(values))}

\* the script, run_ab_test of abtest-analysis.py, and run_ab_test of
\* data_analytics_examples/abtest-analysis.py
Variants == {"abtest", "abtest_analysis", "examples_abtest_analysis"}

IsScript(v) == v = "abtest"

\* the precondition of the specification: all four parameters strictly inside
\* (0,1) and baseline_rate + effect_size < 1.  No variant tests it.
ValidConfig(b, e, a, pw) ==
    /\ 0 < b /\ b < Pct
    /\ 0 < e /\ e < Pct
    /\ 0 < a /\ a < Pct
    /\ 0 < pw /\ pw < Pct
    /\ b + e < Pct

\* ---------------------------------------------------------------------- state

VARIABLES
    variant,            \* which source file runs
    baseline_rate, effect_size, alpha, power,   \* the parameters, in percent
    pc,                 \* the section that runs next, "done" or "raised"
    error,              \* the exception that ended the run, "" if none
    sample_size, n_A, n_B, conversions_A, conversions_B,   \* ints; -1: unbound
    p_A, p_B, uplift,   \* floats
    SE, z, p_value, ci_lower, ci_upper,         \* floats
    significant,        \* run_ab_test only
    plotted,            \* what plt.show() displayed (run_ab_test only)
    results,            \* the results dict, as the sequence of its values
    printed             \* the values printed, in order

vars == << variant, baseline_rate, effect_size, alpha, power, pc, error,
           sample_size, n_A, n_B, conversions_A, conversions_B,
           p_A, p_B, uplift, SE, z, p_value, ci_lower, ci_upper,
           significant, plotted, results, printed >>

params == << variant, baseline_rate, effect_size, alpha, power >>

Init ==
    /\ variant \in Variants
    /\ baseline_rate \in Grid(BaselineRates)
    /\ effect_size \in Grid(EffectSizes)
    /\ alpha \in Grid(Alphas)
    /\ power \in Grid(Powers)
    /\ pc = "calculate"
    /\ error = ""
    /\ sample_size = -1 /\ n_A = -1 /\ n_B = -1
    /\ conversions_A = -1 /\ conversions_B = -1
    /\ p_A = Unset /\ p_B = Unset /\ uplift = Unset
    /\ SE = Unset /\ z = Unset /\ p_value = Unset
    /\ ci_lower = Unset /\ ci_upper = Unset
    /\ significant = FALSE
    /\ plotted = << >>
    /\ results = << >>
    /\ printed = << >>

\* Step 1: sample_size = int(np.ceil(...)); int() raises OverflowError on inf
\* and ValueError on nan
CalculateSampleSize ==
    /\ pc = "calculate"
    /\ LET s == SampleSizeFloat(baseline_rate, effect_size, alpha, power)
       IN  /\ sample_size' = IF s.k = "fin" THEN s.v ELSE sample_size
           /\ error' = IF s.k = "fin" THEN error
                       ELSE IF s.k = "nan" THEN "ValueError"
                       ELSE "OverflowError"
           /\ pc' = IF s.k = "fin" THEN "simulate" ELSE "raised"
    /\ UNCHANGED << params, n_A, n_B, conversions_A, conversions_B,
                    p_A, p_B, uplift, SE, z, p_value, ci_lower, ci_upper,
                    significant, plotted, results, printed >>

\* Step 2: the simulated outcome; conversions_A / n_A is an int division and
\* raises ZeroDivisionError when n_A = 0
SimulateResults ==
    /\ pc = "simulate"
    /\ n_A' = sample_size
    /\ n_B' = sample_size
    /\ conversions_A' = Conversions(n_A', baseline_rate)
    /\ conversions_B' = Conversions(n_B', baseline_rate + effect_size)
    /\ IF n_A' = 0
       THEN /\ pc' = "raised"
            /\ error' = "ZeroDivisionError"
            /\ UNCHANGED << p_A, p_B, uplift >>
       ELSE /\ p_A' = Rate(conversions_A', n_A')
            /\ p_B' = Rate(conversions_B', n_B')
            /\ uplift' = Uplift(p_A', p_B')
            /\ pc' = "analyze"
            /\ UNCHANGED error
    /\ UNCHANGED << params, sample_size, SE, z, p_value, ci_lower, ci_upper,
                    significant, plotted, results, printed >>

\* Step 3: standard error, z-score, p-value, interval and, in run_ab_test,
\* the verdict
Analyze ==
    /\ pc = "analyze"
    /\ SE' = StdErr(p_A, n_A, p_B, n_B)
    /\ z' = ZScore(uplift, SE')
    /\ p_value' = PValue(z')
    /\ ci_lower' = CiLower(uplift, SE')
    /\ ci_upper' = CiUpper(uplift, SE')
    /\ significant' = IF IsScript(variant) THEN significant
                      ELSE Significant(p_value', alpha)
    /\ pc' = IF IsScript(variant) THEN "output" ELSE "visualize"
    /\ UNCHANGED << params, error, sample_size, n_A, n_B, conversions_A,
                    conversions_B, p_A, p_B, uplift, plotted, results,
                    printed >>

\* Step 4 (run_ab_test only): the interval plot
Visualize ==
    /\ pc = "visualize"
    /\ plotted' = << ci_lower, ci_upper, uplift >>
    /\ pc' = "output"
    /\ UNCHANGED << params, error, sample_size, n_A, n_B, conversions_A,
                    conversions_B, p_A, p_B, uplift, SE, z, p_value,
                    ci_lower, ci_upper, significant, results, printed >>

\* the verdict stored in the results record
Verdict(v, pv, sig) == IF IsScript(v) THEN SignificantScript(pv) ELSE sig

\* Step 5: build the results record and print its values
Output ==
    /\ pc = "output"
    /\ results' = Results(sample_size, p_A, p_B, uplift, z, p_value,
                          ci_lower, ci_upper,
                          Verdict(variant, p_value, significant))
    /\ printed' = results'
    /\ pc' = "done"
    /\ UNCHANGED << params, error, sample_size, n_A, n_B, conversions_A,
                    conversions_B, p_A, p_B, uplift, SE, z, p_value,
                    ci_lower, ci_upper, significant, plotted >>

Next ==
    \/ CalculateSampleSize
    \/ SimulateResults
    \/ Analyze
    \/ Visualize
    \/ Output

Spec == Init /\ [][Next]_vars

\* One whole evaluation as a function of the variant and the parameters: the
\* exception that ends it ("" if none) and the results record
Run(v, b, e, a, pw) ==
    LET s == SampleSizeFloat(b, e, a, pw)
        n == s.v
        pA == Rate(Conversions(n, b), n)
        pB == Rate(Conversions(n, b + e), n)
        up == Uplift(pA, pB)
        se == StdErr(pA, n, pB, n)
        zscore == ZScore(up, se)
        pv == PValue(zscore)
    IN  IF s.k = "nan" THEN [error |-> "ValueError", results |-> << >>]
        ELSE IF s.k # "fin" THEN [error |-> "OverflowError", results |-> << >>]
        ELSE IF n = 0 THEN [error |-> "ZeroDivisionError", results |-> << >>]
        ELSE [error |-> "",
              results |-> Results(n, pA, pB, up, zscore, pv,
                                  CiLower(up, se), CiUpper(up, se),
                                  Verdict(v, pv, Significant(pv, a)))]

\* ------------------------------------------------------------------- claims

Valid == ValidConfig(baseline_rate, effect_size, alpha, power)

IsDefault ==
    /\ baseline_rate = DefaultBaselineRate
    /\ effect_size = DefaultEffectSize
    /\ alpha = DefaultAlpha
    /\ power = DefaultPower

\* sample_size of a configuration whose evaluation gets past step 1
SampleSizeOf(b, e, a, pw) == SampleSizeFloat(b, e, a, pw).v

\* the sections after which sample_size, the outcome, the statistics are bound
SizeBound == pc \in {"simulate", "analyze", "visualize", "output", "done"}
OutcomeBound == pc \in {"analyze", "visualize", "output", "done"}
StatsBound == pc \in {"visualize", "output", "done"}

\* a <= b of two floats; False when either is nan
FLe(a, b) == a.k = "fin" /\ b.k = "fin" /\ a.v <= b.v

\* C1: every invalid configuration ends in an InvalidConfiguration error
\* raised before sample_size or anything else is derived, and no results
\* record is produced or printed.
C1_InvalidConfigurationRaised ==
    ~Valid =>
        /\ pc \in {"calculate", "raised"}
        /\ pc = "raised" => error = "InvalidConfiguration"
        /\ sample_size = -1
        /\ results = << >>
        /\ printed = << >>

\* C2: whenever SE equals 0 the evaluation ends in a DegenerateInput error
\* instead of dividing; no results record with an undefined z-score or
\* p-value and no verdict is produced.
C2_DegenerateInputRaised ==
    (SE.k = "fin" /\ SE.v = 0) =>
        /\ pc = "raised"
        /\ error = "DegenerateInput"
        /\ z.k = "unset"
        /\ results = << >>

\* C3: for every valid configuration sample_size is an integer >= 1, so the
\* divisions by n_A and n_B never divide by zero, power = alpha included.
C3_SampleSizePositive ==
    (Valid /\ pc # "calculate") =>
        /\ sample_size >= 1
        /\ error # "ZeroDivisionError"

\* C4 as stated: the default configuration yields sample_size = 2059 (+-1),
\* rates about 0.06 and 0.08 (floored counts), uplift about 0.02 and a
\* verdict of True.
C4_DefaultScenario2059 ==
    (IsDefault /\ pc = "done") =>
        /\ sample_size \in 2058..2060
        /\ Abs(p_A.v - DefaultBaselineRate * 10^4) <= 10^3
        /\ Abs(p_B.v - (DefaultBaselineRate + DefaultEffectSize) * 10^4) <= 10^3
        /\ Abs(uplift.v - DefaultEffectSize * 10^4) <= 10^3
        /\ results[8] = TRUE

\* C4 as amended: the default configuration yields sample_size = 1744 (+-1),
\* rates within 0.001 of 0.06 and 0.08, each the floored count over n, uplift
\* within 0.001 of 0.02 and a verdict of True.
C4_DefaultScenario1744 ==
    (IsDefault /\ pc = "done") =>
        /\ sample_size \in 1743..1745
        /\ conversions_A = (sample_size * DefaultBaselineRate) \div Pct
        /\ conversions_B =
              (sample_size * (DefaultBaselineRate + DefaultEffectSize)) \div Pct
        /\ Abs(p_A.v - DefaultBaselineRate * 10^4) <= 10^3
        /\ Abs(p_B.v - (DefaultBaselineRate + DefaultEffectSize) * 10^4) <= 10^3
        /\ Abs(uplift.v - DefaultEffectSize * 10^4) <= 10^3
        /\ results[8] = TRUE

C4_Witness ==
    /\ IsDefault
    /\ pc = "done"
    /\ sample_size = 1744
    /\ printed = results

\* C5: in run_ab_test the reported verdict equals p_value < alpha, with the
\* alpha of the call and the unrounded p-value.
C5_VerdictIsPValueBelowAlpha ==
    (~IsScript(variant) /\ pc = "done") =>
        /\ results[8] = (p_value.k = "fin" /\ p_value.v < alpha * 10^4)
        /\ results[8] = significant

\* a run_ab_test verdict that 0.05 in place of alpha would turn around
C5_Witness ==
    /\ ~IsScript(variant)
    /\ pc = "done"
    /\ alpha # LiteralAlpha
    /\ results[8] = TRUE
    /\ p_value.v >= LiteralAlpha * 10^4

\* C6: the three variants produce the same eight output values for every
\* configuration, alpha other than 0.05 included.
C6_VariantsAgree ==
    pc \in {"done", "raised"} =>
        \A v \in Variants :
            LET r == Run(v, baseline_rate, effect_size, alpha, power)
            IN  r.error = error /\ r.results = results

\* C7: of two valid configurations that differ only in effect_size, the one
\* with the smaller effect_size has the greater or equal sample_size.
C7_MonotoneInEffectSize ==
    (Valid /\ SizeBound) =>
        \A e2 \in Grid(EffectSizes) :
            (ValidConfig(baseline_rate, e2, alpha, power) /\ effect_size < e2)
                => sample_size >= SampleSizeOf(baseline_rate, e2, alpha, power)

C7_Witness ==
    /\ Valid /\ SizeBound
    /\ \E e2 \in Grid(EffectSizes) :
           /\ ValidConfig(baseline_rate, e2, alpha, power)
           /\ effect_size < e2
           /\ sample_size > SampleSizeOf(baseline_rate, e2, alpha, power)

\* C8 as stated: over all valid alpha and power, a higher power never gives a
\* smaller sample_size and a smaller alpha never gives a smaller sample_size.
C8_MonotoneInPowerAndAlpha ==
    (Valid /\ SizeBound) =>
        /\ \A pw2 \in Grid(Powers) :
               (ValidConfig(baseline_rate, effect_size, alpha, pw2)
                    /\ power < pw2)
                   => SampleSizeOf(baseline_rate, effect_size, alpha, pw2)
                          >= sample_size
        /\ \A a2 \in Grid(Alphas) :
               (ValidConfig(baseline_rate, effect_size, a2, power)
                    /\ a2 < alpha)
                   => SampleSizeOf(baseline_rate, effect_size, a2, power)
                          >= sample_size

\* C8 as amended: the same, for pairs of valid configurations in both of which
\* power >= alpha (so that z(1-alpha) + z(power) >= 0).
C8_MonotoneWherePowerAtLeastAlpha ==
    (Valid /\ SizeBound /\ power >= alpha) =>
        /\ \A pw2 \in Grid(Powers) :
               (ValidConfig(baseline_rate, effect_size, alpha, pw2)
                    /\ power < pw2)
                   => SampleSizeOf(baseline_rate, effect_size, alpha, pw2)
                          >= sample_size
        /\ \A a2 \in Grid(Alphas) :
               (ValidConfig(baseline_rate, effect_size, a2, power)
                    /\ a2 < alpha)
                   => SampleSizeOf(baseline_rate, effect_size, a2, power)
                          >= sample_size

C8_Witness ==
    /\ Valid /\ SizeBound /\ power >= alpha
    /\ sample_size >= 1
    /\ \E pw2 \in Grid(Powers) :
           /\ ValidConfig(baseline_rate, effect_size, alpha, pw2)
           /\ power < pw2
           /\ SampleSizeOf(baseline_rate, effect_size, alpha, pw2) > sample_size
    /\ \E a2 \in Grid(Alphas) :
           /\ ValidConfig(baseline_rate, effect_size, a2, power)
           /\ a2 < alpha
           /\ SampleSizeOf(baseline_rate, effect_size, a2, power) > sample_size

\* C9: for every valid configuration with sample_size >= 1, n_A = n_B =
\* sample_size, the conversions are n * rate truncated toward zero and lie in
\* 0..n, p_A and p_B lie in [0,1] and uplift = p_B - p_A.
C9_OutcomeInRange ==
    (Valid /\ OutcomeBound /\ sample_size >= 1) =>
        /\ n_A = sample_size /\ n_B = sample_size
        /\ 0 <= conversions_A /\ conversions_A <= n_A
        /\ 0 <= conversions_B /\ conversions_B <= n_B
        /\ conversions_A * Pct <= n_A * baseline_rate
        /\ n_A * baseline_rate < (conversions_A + 1) * Pct
        /\ conversions_B * Pct <= n_B * (baseline_rate + effect_size)
        /\ n_B * (baseline_rate + effect_size) < (conversions_B + 1) * Pct
        /\ FLe(Fin(0), p_A) /\ FLe(p_A, Fin(One))
        /\ FLe(Fin(0), p_B) /\ FLe(p_B, Fin(One))
        /\ uplift = Fin(p_B.v - p_A.v)

\* an outcome whose two conversion counts were both cut down by the truncation
C9_Witness ==
    /\ Valid /\ OutcomeBound /\ sample_size >= 1
    /\ 0 < conversions_A /\ conversions_A < conversions_B
    /\ conversions_A * Pct < n_A * baseline_rate
    /\ conversions_B * Pct < n_B * (baseline_rate + effect_size)

\* C10: in every execution that produces a confidence interval, ci_lower <=
\* uplift <= ci_upper with ci = uplift -+ z(0.975) * SE and SE >= 0, the
\* critical value not depending on alpha; the interval is the single point
\* uplift exactly when SE = 0.
C10_IntervalContainsUplift ==
    StatsBound =>
        /\ FLe(Fin(0), SE)
        /\ FLe(ci_lower, uplift) /\ FLe(uplift, ci_upper)
        /\ ci_lower = Fin(uplift.v - MulDiv(NormPpf(975).v, SE.v, One))
        /\ ci_upper = Fin(uplift.v + MulDiv(NormPpf(975).v, SE.v, One))
        /\ (ci_lower = ci_upper) <=> (SE.v = 0)

====
